---- MODULE Spec2Model ----
(***************************************************************************)
(* Model of csv_to_json/cirius.py: the four CSV exports fil.csv, sag.csv,  *)
(* dokumentcdw.csv and notat.csv are joined into one list of "sager", each *)
(* with its "dokumentListe" and "notatListe", and written as cirius.json.  *)
(*                                                                         *)
(* A Python dict with string keys is a function with a set of strings as   *)
(* its domain; a list is a sequence; the rows a DictReader yields are      *)
(* chosen one at a time from small sets of rows and remembered in          *)
(* filRows, sagRows, dokRows and notatRows.                                *)
(***************************************************************************)
EXTENDS Integers, Sequences, FiniteSets, TLC

\* Total number of rows read from the four CSV files in one run.
MaxRows == 4

\* The value DictReader gives a column that a short row lacks (restval).
\* It stands outside the strings a CSV cell can hold.
None == "<None>"

-----------------------------------------------------------------------------
(* Inputs: the rows the four readers can yield.                            *)

FilRow(kind, id, navn) ==
    [notes_template_name |-> kind, notes_template_id |-> id, filnavn |-> navn]

FilInputs ==
    {FilRow(k, "1", n) : k \in {"dokument", "cdw", "notat", "andet"},
                         n \in {"a", "b"}}

SagRow(nr, titel) == [SagsNr |-> nr, Titel |-> titel]

SagInputs == {SagRow("1", "x"), SagRow("1", "y"), SagRow("2", "x")}

DokRow(did, sag, cid, rest) ==
    [dokument_id |-> did, SagsNr |-> sag, dokTitel |-> rest,
     cdw_id |-> cid, cdwDocumentUniqueID |-> rest, cdwCreatedDate |-> rest,
     From1 |-> rest, PostedDate |-> rest, SendTo |-> rest, CopyTo |-> rest,
     BlindCopyTo |-> rest, Subject |-> rest, cdwBody |-> rest]

DokInputs ==
    {DokRow("1", "1", "", "v"), DokRow("1", "1", "1", "v"),
     DokRow("1", "1", "2", "v"), DokRow("2", "2", "1", "v"),
     DokRow("2", "3", "", "v"), DokRow("2", "3", "1", "v"),
     DokRow(None, "1", "1", None), DokRow("1", "1", None, None)}

NotatRow(id, sag) == [notat_id |-> id, SagsNr |-> sag, tekst |-> "n"]

NotatInputs ==
    {NotatRow("1", "1"), NotatRow("2", "1"), NotatRow("1", "3"),
     NotatRow("2", "2")}

-----------------------------------------------------------------------------
(* State.                                                                  *)

VARIABLES
    pc,                       \* position of the run in cirius()
    filRows, sagRows,         \* rows read so far from each file
    dokRows, notatRows,
    closed,                   \* input files whose "with" block has been left
    dict_mapping,             \* owner kind -> (owner id -> list of fil rows)
    sager,                    \* list of sag records
    index_mapping_sager,      \* SagsNr -> index in sager
    dokumenter,               \* list of dokument records
    index_mapping_dokumenter, \* dokument_id -> index in dokumenter
    cdw,                      \* the cdw part of the row being processed
    i,                        \* elements of dokumenter the second loop has done
    stdout,                   \* diagnostics printed by append_to_obj
    written,                  \* cirius.json has been written
    cirius_json               \* the list encoded into cirius.json

vars == <<pc, filRows, sagRows, dokRows, notatRows, closed, dict_mapping,
          sager, index_mapping_sager, dokumenter, index_mapping_dokumenter,
          cdw, i, stdout, written, cirius_json>>

\* The three dicts dict_mapping refers to.
dokumentFiles == dict_mapping["dokument"]
cdwFiles == dict_mapping["cdw"]
notatFiles == dict_mapping["notat"]

TotalRows == Len(filRows) + Len(sagRows) + Len(dokRows) + Len(notatRows)

-----------------------------------------------------------------------------
(* Helpers.                                                                *)

\* d[k] = v on a dict: the key is added, or its value overwritten.
Put(d, k, v) == [x \in DOMAIN d \cup {k} |-> IF x = k THEN v ELSE d[x]]

\* The ten columns that belong to the cdw part of a dokumentcdw row.
cdw_keys ==
    {"cdw_id", "cdwDocumentUniqueID", "cdwCreatedDate", "From1", "PostedDate",
     "SendTo", "CopyTo", "BlindCopyTo", "Subject", "cdwBody"}

\* "if value is None: value = ''"
Norm(value) == IF value = None THEN "" ELSE value

\* The dict "cdw" built from a dokumentcdw row.
SplitCdw(row) == [key \in DOMAIN row \cap cdw_keys |-> Norm(row[key])]

\* A variant of SplitDokument that copies every column into dokument.
SplitDokument_all(row) == [key \in DOMAIN row |-> Norm(row[key])]

\* The dict "dokument" built from a dokumentcdw row.
SplitDokument(row) == [key \in DOMAIN row \ cdw_keys |-> Norm(row[key])]

\* "dokument_id not in dokumenter": the operand on the right is the LIST of
\* dokument dicts, and Python's "in" on a list compares the string with each
\* element; a str never equals a dict, so no element matches.
StrEqDict(s, d) == FALSE

InDokumenter(dokument_id, list) ==
    \E n \in 1..Len(list) : StrEqDict(dokument_id, list[n])

\* A variant of WithFilListe that sets filListe on every record, to an
\* empty list when the owner has no fil rows.
WithFilListe_always(obj, id, files) ==
    Put(obj, "filListe", IF id \in DOMAIN files THEN files[id] ELSE <<>>)

\* obj["filListe"] = files[id] when id is a key of files.
WithFilListe(obj, id, files) ==
    IF id \in DOMAIN files THEN Put(obj, "filListe", files[id]) ELSE obj

\* A variant of IndexFil that ignores the owner kind and files the row
\* under its owner id in all three dicts.
IndexFil_all(dm, fil) ==
    LET id == fil.notes_template_id
    IN  [kind \in DOMAIN dm |->
           Put(dm[kind], id,
               Append(IF id \in DOMAIN dm[kind] THEN dm[kind][id] ELSE <<>>,
                      fil))]

\* The dicts after one fil row of a recognised kind is indexed.
IndexFil(dm, fil) ==
    LET kind == fil.notes_template_name
        id == fil.notes_template_id
        appropriate_dict == dm[kind]
        d1 == IF id \notin DOMAIN appropriate_dict
              THEN Put(appropriate_dict, id, <<>>)
              ELSE appropriate_dict
    IN  [dm EXCEPT ![kind] = [d1 EXCEPT ![id] = Append(@, fil)]]

\* A variant of Register that keeps the entry a key already has.
Register_first(index_map, key, list) ==
    IF key \in DOMAIN index_map THEN index_map
    ELSE Put(index_map, key, Len(list) - 1)

\* index_mapping[key] = len(list) - 1, after the append.
Register(index_map, key, list) == Put(index_map, key, Len(list) - 1)

\* A variant of append_to_obj that attaches a child with an unknown key to
\* the last parent instead of dropping it.
append_to_obj_fallback(parent_objects, parent_index_map, index_key, child_obj_type, child_obj) ==
    LET n == IF index_key \in DOMAIN parent_index_map
             THEN parent_index_map[index_key] + 1
             ELSE Len(parent_objects)
    IN  IF n = 0 THEN parent_objects
        ELSE [parent_objects EXCEPT
                ![n] = Put(@, child_obj_type,
                           Append(IF child_obj_type \in DOMAIN @
                                  THEN @[child_obj_type] ELSE <<>>,
                                  child_obj))]

\* A variant of append_to_obj that replaces the parent by a record holding
\* only the child list.
append_to_obj_replace(parent_objects, parent_index_map, index_key, child_obj_type, child_obj) ==
    IF index_key \in DOMAIN parent_index_map
    THEN [parent_objects EXCEPT
            ![parent_index_map[index_key] + 1] =
                Put(<<>>, child_obj_type, <<child_obj>>)]
    ELSE parent_objects

\* A variant of append_to_obj that starts a new child list on every call.
append_to_obj_overwrite(parent_objects, parent_index_map, index_key, child_obj_type, child_obj) ==
    IF index_key \in DOMAIN parent_index_map
    THEN [parent_objects EXCEPT
            ![parent_index_map[index_key] + 1] =
                Put(@, child_obj_type, <<child_obj>>)]
    ELSE parent_objects

\* append_to_obj: the parent list it leaves behind.
append_to_obj(parent_objects, parent_index_map, index_key, child_obj_type, child_obj) ==
    IF index_key \notin DOMAIN parent_index_map
    THEN parent_objects
    ELSE LET n == parent_index_map[index_key] + 1
             corresponding_obj == parent_objects[n]
             o1 == IF child_obj_type \notin DOMAIN corresponding_obj
                   THEN Put(corresponding_obj, child_obj_type, <<>>)
                   ELSE corresponding_obj
         IN  [parent_objects EXCEPT
                ![n] = [o1 EXCEPT ![child_obj_type] = Append(@, child_obj)]]

\* append_to_obj: what it prints.
append_to_obj_print(parent_index_map, index_key, child_obj) ==
    IF index_key \notin DOMAIN parent_index_map
    THEN <<[index_key |-> index_key, child_obj |-> child_obj]>>
    ELSE <<>>

-----------------------------------------------------------------------------
(* The run.                                                                *)

Init ==
    /\ pc = "start"
    /\ filRows = <<>> /\ sagRows = <<>> /\ dokRows = <<>> /\ notatRows = <<>>
    /\ closed = {}
    /\ dict_mapping = [k \in {"dokument", "cdw", "notat"} |-> <<>>]
    /\ sager = <<>>
    /\ index_mapping_sager = <<>>
    /\ dokumenter = <<>>
    /\ index_mapping_dokumenter = <<>>
    /\ cdw = <<>>
    /\ i = 0
    /\ stdout = <<>>
    /\ written = FALSE
    /\ cirius_json = <<>>

\* The four files must exist, or the run raises before reading anything.
CheckFiles ==
    /\ pc = "start"
    /\ \E all_exist \in BOOLEAN :
         pc' = IF all_exist THEN "fil" ELSE "aborted"
    /\ UNCHANGED <<filRows, sagRows, dokRows, notatRows, closed, dict_mapping,
                   sager, index_mapping_sager, dokumenter,
                   index_mapping_dokumenter, cdw, i, stdout, written,
                   cirius_json>>

\* A variant of ReadFil that skips a row of an unrecognised kind.
ReadFil_skip ==
    /\ pc = "fil"
    /\ TotalRows < MaxRows
    /\ \E fil \in FilInputs :
         /\ filRows' = Append(filRows, fil)
         /\ dict_mapping' =
              IF fil.notes_template_name \in DOMAIN dict_mapping
              THEN IndexFil(dict_mapping, fil)
              ELSE dict_mapping
    /\ UNCHANGED <<pc, closed, sagRows, dokRows, notatRows, sager,
                   index_mapping_sager, dokumenter, index_mapping_dokumenter,
                   cdw, i, stdout, written, cirius_json>>

\* One iteration of the loop over fil.csv. A kind that is no key of
\* dict_mapping raises KeyError, which leaves the "with" block and the run.
ReadFil ==
    /\ pc = "fil"
    /\ TotalRows < MaxRows
    /\ \E fil \in FilInputs :
         /\ filRows' = Append(filRows, fil)
         /\ IF fil.notes_template_name \in DOMAIN dict_mapping
            THEN /\ dict_mapping' = IndexFil(dict_mapping, fil)
                 /\ UNCHANGED <<pc, closed>>
            ELSE /\ pc' = "aborted"
                 /\ closed' = closed \cup {"fil.csv"}
                 /\ UNCHANGED dict_mapping
    /\ UNCHANGED <<sagRows, dokRows, notatRows, sager, index_mapping_sager,
                   dokumenter, index_mapping_dokumenter, cdw, i, stdout,
                   written, cirius_json>>

EndFil ==
    /\ pc = "fil"
    /\ pc' = "sag"
    /\ closed' = closed \cup {"fil.csv"}
    /\ UNCHANGED <<filRows, sagRows, dokRows, notatRows, dict_mapping, sager,
                   index_mapping_sager, dokumenter, index_mapping_dokumenter,
                   cdw, i, stdout, written, cirius_json>>

\* One iteration of the loop over sag.csv.
ReadSag ==
    /\ pc = "sag"
    /\ TotalRows < MaxRows
    /\ \E sag \in SagInputs :
         /\ sagRows' = Append(sagRows, sag)
         /\ sager' = Append(sager, sag)
         /\ index_mapping_sager' =
                Register(index_mapping_sager, sag.SagsNr, sager')
    /\ UNCHANGED <<pc, filRows, dokRows, notatRows, closed, dict_mapping,
                   dokumenter, index_mapping_dokumenter, cdw, i, stdout,
                   written, cirius_json>>

EndSag ==
    /\ pc = "sag"
    /\ pc' = "dokumentcdw"
    /\ closed' = closed \cup {"sag.csv"}
    /\ UNCHANGED <<filRows, sagRows, dokRows, notatRows, dict_mapping, sager,
                   index_mapping_sager, dokumenter, index_mapping_dokumenter,
                   cdw, i, stdout, written, cirius_json>>

\* One iteration of the loop over dokumentcdw.csv, up to the call of
\* append_to_dokument: the row is split, the dokument part is registered,
\* and the cdw part gets its filListe.
ReadDokumentcdw ==
    /\ pc = "dokumentcdw"
    /\ TotalRows < MaxRows
    /\ \E dokumentcdw \in DokInputs :
         LET dokument == SplitDokument(dokumentcdw)
             cdw0 == SplitCdw(dokumentcdw)
         IN  /\ dokRows' = Append(dokRows, dokumentcdw)
             /\ IF ~InDokumenter(dokument["dokument_id"], dokumenter)
                THEN /\ dokumenter' =
                          Append(dokumenter,
                                 WithFilListe(dokument, dokument["dokument_id"],
                                              dokumentFiles))
                     /\ index_mapping_dokumenter' =
                          Register(index_mapping_dokumenter,
                                   dokument["dokument_id"], dokumenter')
                ELSE UNCHANGED <<dokumenter, index_mapping_dokumenter>>
             /\ IF cdw0["cdw_id"] # ""
                THEN /\ cdw' = WithFilListe(cdw0, cdw0["cdw_id"], cdwFiles)
                     /\ pc' = "cdw"
                ELSE /\ cdw' = cdw0
                     /\ pc' = pc
    /\ UNCHANGED <<filRows, sagRows, notatRows, closed, dict_mapping, sager,
                   index_mapping_sager, i, stdout, written, cirius_json>>

\* append_to_dokument(dokumentcdw["dokument_id"], cdw): the key is the
\* row's own value, not the normalised one the dokument dict holds.
AttachCdw ==
    /\ pc = "cdw"
    /\ LET dokId == dokRows[Len(dokRows)]["dokument_id"]
       IN  /\ dokumenter' = append_to_obj(dokumenter, index_mapping_dokumenter,
                                          dokId, "cdwListe", cdw)
           /\ stdout' = stdout \o
                  append_to_obj_print(index_mapping_dokumenter, dokId, cdw)
    /\ pc' = "dokumentcdw"
    /\ UNCHANGED <<filRows, sagRows, dokRows, notatRows, closed, dict_mapping,
                   sager, index_mapping_sager, index_mapping_dokumenter, cdw,
                   i, written, cirius_json>>

EndDokumentcdw ==
    /\ pc = "dokumentcdw"
    /\ pc' = "dokumenter"
    /\ closed' = closed \cup {"dokumentcdw.csv"}
    /\ UNCHANGED <<filRows, sagRows, dokRows, notatRows, dict_mapping, sager,
                   index_mapping_sager, dokumenter, index_mapping_dokumenter,
                   cdw, i, stdout, written, cirius_json>>

\* One iteration of "for dokument in dokumenter".
AttachDokument ==
    /\ pc = "dokumenter"
    /\ i < Len(dokumenter)
    /\ LET dokument == dokumenter[i + 1]
           sagsnr == dokument["SagsNr"]
       IN  /\ sager' = append_to_obj(sager, index_mapping_sager, sagsnr,
                                     "dokumentListe", dokument)
           /\ stdout' = stdout \o
                  append_to_obj_print(index_mapping_sager, sagsnr, dokument)
    /\ i' = i + 1
    /\ UNCHANGED <<pc, filRows, sagRows, dokRows, notatRows, closed,
                   dict_mapping, index_mapping_sager, dokumenter,
                   index_mapping_dokumenter, cdw, written, cirius_json>>

EndDokumenter ==
    /\ pc = "dokumenter"
    /\ i = Len(dokumenter)
    /\ pc' = "notat"
    /\ UNCHANGED <<filRows, sagRows, dokRows, notatRows, closed, dict_mapping,
                   sager, index_mapping_sager, dokumenter,
                   index_mapping_dokumenter, cdw, i, stdout, written,
                   cirius_json>>

\* One iteration of the loop over notat.csv.
ReadNotat ==
    /\ pc = "notat"
    /\ TotalRows < MaxRows
    /\ \E row \in NotatInputs :
         LET notat == WithFilListe(row, row["notat_id"], notatFiles)
             sagsnr == notat["SagsNr"]
         IN  /\ notatRows' = Append(notatRows, row)
             /\ sager' = append_to_obj(sager, index_mapping_sager, sagsnr,
                                       "notatListe", notat)
             /\ stdout' = stdout \o
                    append_to_obj_print(index_mapping_sager, sagsnr, notat)
    /\ UNCHANGED <<pc, filRows, sagRows, dokRows, closed, dict_mapping,
                   index_mapping_sager, dokumenter, index_mapping_dokumenter,
                   cdw, i, written, cirius_json>>

EndNotat ==
    /\ pc = "notat"
    /\ pc' = "write"
    /\ closed' = closed \cup {"notat.csv"}
    /\ UNCHANGED <<filRows, sagRows, dokRows, notatRows, dict_mapping, sager,
                   index_mapping_sager, dokumenter, index_mapping_dokumenter,
                   cdw, i, stdout, written, cirius_json>>

\* json_sager is encoded from sager and written to cirius.json.
WriteJson ==
    /\ pc = "write"
    /\ cirius_json' = sager
    /\ written' = TRUE
    /\ pc' = "done"
    /\ UNCHANGED <<filRows, sagRows, dokRows, notatRows, closed, dict_mapping,
                   sager, index_mapping_sager, dokumenter,
                   index_mapping_dokumenter, cdw, i, stdout>>

Next ==
    \/ CheckFiles
    \/ ReadFil
    \/ EndFil
    \/ ReadSag
    \/ EndSag
    \/ ReadDokumentcdw
    \/ AttachCdw
    \/ EndDokumentcdw
    \/ AttachDokument
    \/ EndDokumenter
    \/ ReadNotat
    \/ EndNotat
    \/ WriteJson

Spec == Init /\ [][Next]_vars

-----------------------------------------------------------------------------
(* Vocabulary of the properties.                                           *)

\* The child list of a record, empty when the record has no such field.
ChildList(obj, type) == IF type \in DOMAIN obj THEN obj[type] ELSE <<>>

\* Positions of the run at which no dokumentcdw row is half processed and
\* the dokumentcdw pass has finished.
AfterDokPass == {"dokumenter", "notat", "write", "done"}

\* A cdw_id for which the row carries a cdw part.
HasCdw(row) == row["cdw_id"] # "" /\ row["cdw_id"] # None

\* The fil rows of one owner, in fil.csv order.
Matching(kind, id) ==
    LET Test(fil) == /\ fil["notes_template_name"] = kind
                     /\ fil["notes_template_id"] = id
    IN  SelectSeq(filRows, Test)

\* The positions in a list of records whose field has the given value.
Positions(list, field, value) ==
    {n \in 1..Len(list) : list[n][field] = value}

Max(S) == CHOOSE x \in S : \A y \in S : y <= x
Min(S) == CHOOSE x \in S : \A y \in S : x <= y

\* Number of cdw records nested in a list of dokument records.
RECURSIVE CountCdw(_)
CountCdw(list) ==
    IF list = <<>> THEN 0
    ELSE Len(ChildList(Head(list), "cdwListe")) + CountCdw(Tail(list))

\* Number of children of one kind nested in a list of sag records.
RECURSIVE CountChildren(_, _)
CountChildren(list, type) ==
    IF list = <<>> THEN 0
    ELSE Len(ChildList(Head(list), type)) + CountChildren(Tail(list), type)

\* Number of diagnostics whose orphaned record has the given field.
RECURSIVE CountPrints(_, _)
CountPrints(out, field) ==
    IF out = <<>> THEN 0
    ELSE (IF field \in DOMAIN Head(out).child_obj THEN 1 ELSE 0)
         + CountPrints(Tail(out), field)

-----------------------------------------------------------------------------
(* Properties.                                                             *)

\* The cdw record a dokumentcdw row gives rise to.
CdwOf(row) == WithFilListe(SplitCdw(row), SplitCdw(row)["cdw_id"], cdwFiles)

\* The dokumentcdw rows read so far that carry the given dokument_id.
RowsOf(did) ==
    LET Test(row) == row["dokument_id"] = did
    IN  SelectSeq(dokRows, Test)

\* All rows of one dokument_id agree on the dokument part and carry
\* pairwise distinct, non-empty cdw_ids.
DedupCase(did) ==
    LET rows == RowsOf(did)
    IN  /\ did # None
        /\ Len(rows) >= 1
        /\ \A m, n \in 1..Len(rows) :
             /\ SplitDokument(rows[m]) = SplitDokument(rows[n])
             /\ HasCdw(rows[m])
             /\ (m # n => rows[m]["cdw_id"] # rows[n]["cdw_id"])

\* C1: after the dokumentcdw pass, a dokument_id that occurs in N rows with
\* identical dokument fields and N distinct non-empty cdw_ids has exactly one
\* record in dokumenter, whose cdwListe holds the N cdw records in row order.
C1_DocumentDedup ==
    pc \in AfterDokPass =>
      \A did \in {dokRows[n]["dokument_id"] : n \in 1..Len(dokRows)} :
        DedupCase(did) =>
          LET rows == RowsOf(did)
              at == Positions(dokumenter, "dokument_id", did)
          IN  /\ Cardinality(at) = 1
              /\ \A n \in at :
                   /\ Len(ChildList(dokumenter[n], "cdwListe")) = Len(rows)
                   /\ \A m \in 1..Len(rows) :
                        dokumenter[n]["cdwListe"][m] = CdwOf(rows[m])

\* A dokument the second loop has handled and whose SagsNr is no key of the
\* sag index.
Orphan(n) == /\ n \in 1..i
             /\ dokumenter[n]["SagsNr"] \notin DOMAIN index_mapping_sager

\* C2: a dokument whose SagsNr is no key of the sag index is in no sag's
\* dokumentListe and a diagnostic names the missing SagsNr; the run does not
\* abort, and when it ends every dokument and every notat has been attached
\* or reported and cirius.json is written.
C2_OrphanHandling ==
    /\ \A n \in 1..Len(dokumenter) :
         Orphan(n) =>
           /\ \A c \in 1..Len(sager) :
                \A m \in 1..Len(ChildList(sager[c], "dokumentListe")) :
                   sager[c]["dokumentListe"][m]["SagsNr"]
                       # dokumenter[n]["SagsNr"]
           /\ \E k \in 1..Len(stdout) :
                /\ stdout[k].index_key = dokumenter[n]["SagsNr"]
                /\ stdout[k].child_obj = dokumenter[n]
           /\ pc # "aborted"
    /\ Len(dokRows) + Len(notatRows) > 0 => pc # "aborted"
    /\ pc = "done" =>
         /\ written
         /\ i = Len(dokumenter)
         /\ CountChildren(cirius_json, "dokumentListe")
              + CountPrints(stdout, "dokument_id") = Len(dokRows)
         /\ CountChildren(cirius_json, "notatListe")
              + CountPrints(stdout, "notat_id") = Len(notatRows)

\* C2 witness: the run has ended with one dokument reported as orphan, one
\* dokument attached and one notat attached after it.
C2_Witness ==
    /\ pc = "done"
    /\ \E n \in 1..Len(dokumenter) : Orphan(n)
    /\ CountChildren(cirius_json, "dokumentListe") >= 1
    /\ CountChildren(cirius_json, "notatListe") >= 1

\* A record has a filListe exactly when its owner has fil rows, and the
\* filListe is then those rows in fil.csv order.
FilListeExact(obj, kind, id) ==
    /\ "filListe" \in DOMAIN obj <=> Len(Matching(kind, id)) > 0
    /\ "filListe" \in DOMAIN obj => obj["filListe"] = Matching(kind, id)

\* FilListeExact for every dokument, cdw and notat record of a tree of sager.
TreeFilListeExact(tree) ==
    \A c \in 1..Len(tree) :
      /\ \A m \in 1..Len(ChildList(tree[c], "dokumentListe")) :
           LET dokument == tree[c]["dokumentListe"][m]
           IN  /\ FilListeExact(dokument, "dokument", dokument["dokument_id"])
               /\ \A a \in 1..Len(ChildList(dokument, "cdwListe")) :
                    FilListeExact(dokument["cdwListe"][a], "cdw",
                                  dokument["cdwListe"][a]["cdw_id"])
      /\ \A m \in 1..Len(ChildList(tree[c], "notatListe")) :
           FilListeExact(tree[c]["notatListe"][m], "notat",
                         tree[c]["notatListe"][m]["notat_id"])

\* C3: every dokument, cdw and notat record of the tree has a filListe if
\* and only if fil.csv has a row of its kind and id, and the filListe is
\* then exactly those rows in file order (never empty, never a foreign row).
C3_FilListeOptional ==
    /\ TreeFilListeExact(sager)
    /\ written => TreeFilListeExact(cirius_json)

\* C3 witness: the written tree holds a dokument whose filListe has two rows.
C3_Witness ==
    /\ written
    /\ \E c \in 1..Len(cirius_json) :
         \E m \in 1..Len(ChildList(cirius_json[c], "dokumentListe")) :
            Len(ChildList(cirius_json[c]["dokumentListe"][m], "filListe")) = 2

\* A fil row is an element of the filListe of a record.
InFilListe(fil, obj) ==
    \E k \in 1..Len(ChildList(obj, "filListe")) : obj["filListe"][k] = fil

\* C4: a fil row of kind "notat" is in the filListe of no dokument and no
\* cdw, whatever their ids, and is in the filListe of a notat exactly when
\* the notat_id is the row's owner id; likewise for "dokument" and "cdw".
C4_OwnerKindPartition ==
    \A f \in 1..Len(filRows) :
      LET fil == filRows[f]
          kind == fil["notes_template_name"]
          id == fil["notes_template_id"]
      IN  \A c \in 1..Len(sager) :
            /\ \A m \in 1..Len(ChildList(sager[c], "dokumentListe")) :
                 LET dokument == sager[c]["dokumentListe"][m]
                 IN  /\ InFilListe(fil, dokument) <=>
                          (kind = "dokument" /\ id = dokument["dokument_id"])
                     /\ \A a \in 1..Len(ChildList(dokument, "cdwListe")) :
                          InFilListe(fil, dokument["cdwListe"][a]) <=>
                            (kind = "cdw"
                               /\ id = dokument["cdwListe"][a]["cdw_id"])
            /\ \A m \in 1..Len(ChildList(sager[c], "notatListe")) :
                 InFilListe(fil, sager[c]["notatListe"][m]) <=>
                   (kind = "notat" /\ id = sager[c]["notatListe"][m]["notat_id"])

\* C4 witness: a "notat" fil row with owner id "1" is held by the notat 1
\* while a dokument with dokument_id "1" and a cdw with cdw_id "1" are in
\* the tree.
C4_Witness ==
    /\ pc = "done"
    /\ \E f \in 1..Len(filRows) :
         /\ filRows[f]["notes_template_name"] = "notat"
         /\ \E c \in 1..Len(sager) :
              /\ \E m \in 1..Len(ChildList(sager[c], "notatListe")) :
                   InFilListe(filRows[f], sager[c]["notatListe"][m])
              /\ \E m \in 1..Len(ChildList(sager[c], "dokumentListe")) :
                   LET dokument == sager[c]["dokumentListe"][m]
                   IN  /\ dokument["dokument_id"]
                            = filRows[f]["notes_template_id"]
                       /\ \E a \in 1..Len(ChildList(dokument, "cdwListe")) :
                            dokument["cdwListe"][a]["cdw_id"]
                              = filRows[f]["notes_template_id"]

\* A list of sag records carries, position by position, the fields of the
\* sag rows read.
SameSager(list) ==
    /\ Len(list) = Len(sagRows)
    /\ \A n \in 1..Len(sagRows) :
         \A field \in DOMAIN sagRows[n] :
            /\ field \in DOMAIN list[n]
            /\ list[n][field] = sagRows[n][field]

\* C5: the list of sager, and the list written as output, has one element
\* per sag row, the n-th carrying the fields of the n-th row; no later pass
\* reorders, removes or inserts a sag.
C5_CaseOrdering ==
    /\ SameSager(sager)
    /\ written => SameSager(cirius_json)

\* C5 witness: two sager are written, the second referenced by a dokument
\* and the first by a later notat.
C5_Witness ==
    /\ written
    /\ Len(cirius_json) = 2
    /\ "notatListe" \in DOMAIN cirius_json[1]
    /\ "dokumentListe" \in DOMAIN cirius_json[2]
    /\ cirius_json[1]["SagsNr"] # cirius_json[2]["SagsNr"]

\* C6: while the cdw part of a row with a non-empty cdw_id waits to be
\* attached, each of the ten cdw fields of the row is in cdw and not in the
\* dokument registered for the row, each other field is in that dokument and
\* not in cdw, and a None value has become the empty string.
C6_FieldPartition ==
    pc = "cdw" =>
      LET row == dokRows[Len(dokRows)]
          did == IF row["dokument_id"] = None THEN "" ELSE row["dokument_id"]
          dokument == dokumenter[index_mapping_dokumenter[did] + 1]
      IN  \A key \in DOMAIN row :
            LET value == IF row[key] = None THEN "" ELSE row[key]
            IN  IF key \in {"cdw_id", "cdwDocumentUniqueID", "cdwCreatedDate",
                            "From1", "PostedDate", "SendTo", "CopyTo",
                            "BlindCopyTo", "Subject", "cdwBody"}
                THEN /\ key \in DOMAIN cdw
                     /\ cdw[key] = value
                     /\ key \notin DOMAIN dokument
                ELSE /\ key \in DOMAIN dokument
                     /\ dokument[key] = value
                     /\ key \notin DOMAIN cdw

\* C6 witness: a row with None values and a non-empty cdw_id has been split.
C6_Witness ==
    /\ pc = "cdw"
    /\ dokRows[Len(dokRows)]["cdwBody"] = None
    /\ dokRows[Len(dokRows)]["dokTitel"] = None
    /\ cdw["cdw_id"] = "1"

\* A fil row whose kind is none of the three recognised ones.
Unrecognised(fil) ==
    fil["notes_template_name"] \notin {"dokument", "cdw", "notat"}

\* C7: an unrecognised owner kind aborts the run at that row of fil.csv (no
\* later row of any file is read, nothing is written); cirius.json is
\* written only when all four files have been read to the end and every
\* dokument has been handled.
C7_FatalNoPartialOutput ==
    /\ \A f \in 1..Len(filRows) :
         Unrecognised(filRows[f]) =>
           /\ pc = "aborted"
           /\ f = Len(filRows)
           /\ sagRows = <<>> /\ dokRows = <<>> /\ notatRows = <<>>
           /\ ~written
    /\ written =>
         /\ pc = "done"
         /\ closed = {"fil.csv", "sag.csv", "dokumentcdw.csv", "notat.csv"}
         /\ i = Len(dokumenter)
         /\ cirius_json = sager
    /\ pc \notin {"done"} => ~written

\* C7 witness: the run has aborted on the second row of fil.csv.
C7_Witness ==
    /\ pc = "aborted"
    /\ Len(filRows) = 2
    /\ Unrecognised(filRows[2])

\* Every child of sager[n] carries the SagsNr of sager[n].
ChildrenOwnKey(n) ==
    \A type \in {"dokumentListe", "notatListe"} :
      \A m \in 1..Len(ChildList(sager[n], type)) :
         sager[n][type][m]["SagsNr"] = sager[n]["SagsNr"]

\* C8 as stated: every sag row stays in sager, a SagsNr resolves to the
\* position of the FIRST sag with that key, and only that sag has children.
C8_FirstOccurrence ==
    /\ Len(sager) = Len(sagRows)
    /\ \A key \in DOMAIN index_mapping_sager :
         index_mapping_sager[key] + 1 = Min(Positions(sager, "SagsNr", key))
    /\ \A n \in 1..Len(sager) :
         /\ ChildrenOwnKey(n)
         /\ n # Min(Positions(sager, "SagsNr", sager[n]["SagsNr"])) =>
              /\ "dokumentListe" \notin DOMAIN sager[n]
              /\ "notatListe" \notin DOMAIN sager[n]

\* C8, amended: every sag row stays in sager, a SagsNr resolves to the
\* position of the LAST sag with that key, and children with that key are
\* attached to the last occurrence and never to an earlier one.
C8_LastOccurrence ==
    /\ Len(sager) = Len(sagRows)
    /\ \A n \in 1..Len(sager) : sager[n]["SagsNr"] = sagRows[n]["SagsNr"]
    /\ pc \notin {"start", "fil", "aborted"} =>
         DOMAIN index_mapping_sager
           = {sagRows[n]["SagsNr"] : n \in 1..Len(sagRows)}
    /\ \A key \in DOMAIN index_mapping_sager :
         index_mapping_sager[key] + 1 = Max(Positions(sager, "SagsNr", key))
    /\ \A n \in 1..Len(sager) :
         /\ ChildrenOwnKey(n)
         /\ n # Max(Positions(sager, "SagsNr", sager[n]["SagsNr"])) =>
              /\ "dokumentListe" \notin DOMAIN sager[n]
              /\ "notatListe" \notin DOMAIN sager[n]

\* C8 witness: two sager share a SagsNr and the second holds a dokument and
\* a notat.
C8_Witness ==
    /\ pc = "done"
    /\ Len(sager) = 2
    /\ sager[1]["SagsNr"] = sager[2]["SagsNr"]
    /\ Len(ChildList(sager[2], "dokumentListe")) = 1
    /\ Len(ChildList(sager[2], "notatListe")) = 1

\* What one call of append_to_obj may change: with an unknown key nothing
\* but one more diagnostic; with a known key the child becomes the last
\* element of the named list of the parent at the mapped position, the
\* earlier elements and every other field and parent staying as they were.
AppendEffect(before, after, index_map, key, type, child, out, out1) ==
    IF key \notin DOMAIN index_map
    THEN /\ after = before
         /\ Len(out1) = Len(out) + 1
         /\ SubSeq(out1, 1, Len(out)) = out
         /\ out1[Len(out1)].index_key = key
         /\ out1[Len(out1)].child_obj = child
    ELSE LET n == index_map[key] + 1
             old == ChildList(before[n], type)
         IN  /\ out1 = out
             /\ Len(after) = Len(before)
             /\ \A m \in 1..Len(before) : m # n => after[m] = before[m]
             /\ DOMAIN after[n] = DOMAIN before[n] \cup {type}
             /\ \A field \in DOMAIN before[n] \ {type} :
                  after[n][field] = before[n][field]
             /\ Len(after[n][type]) = Len(old) + 1
             /\ SubSeq(after[n][type], 1, Len(old)) = old
             /\ after[n][type][Len(old) + 1] = child

\* C9: every call of append_to_obj (for a cdw, a dokument or a notat) has
\* the effect AppendEffect allows, changes neither index map and does not
\* end the run.
C9_ParentAttach ==
    [][
      /\ pc = "cdw" =>
           /\ AppendEffect(dokumenter, dokumenter', index_mapping_dokumenter,
                           dokRows[Len(dokRows)]["dokument_id"], "cdwListe",
                           cdw, stdout, stdout')
           /\ sager' = sager
      /\ (pc = "dokumenter" /\ i' = i + 1) =>
           /\ AppendEffect(sager, sager', index_mapping_sager,
                           dokumenter[i + 1]["SagsNr"], "dokumentListe",
                           dokumenter[i + 1], stdout, stdout')
           /\ dokumenter' = dokumenter
      /\ (pc = "notat" /\ Len(notatRows') = Len(notatRows) + 1) =>
           LET row == notatRows'[Len(notatRows')]
               notat == IF row["notat_id"] \in DOMAIN notatFiles
                        THEN [field \in DOMAIN row \cup {"filListe"} |->
                                IF field = "filListe"
                                THEN notatFiles[row["notat_id"]]
                                ELSE row[field]]
                        ELSE row
           IN  /\ AppendEffect(sager, sager', index_mapping_sager,
                               row["SagsNr"], "notatListe", notat,
                               stdout, stdout')
               /\ dokumenter' = dokumenter
      /\ pc \in {"cdw", "dokumenter", "notat"} =>
           /\ index_mapping_sager' = index_mapping_sager
           /\ index_mapping_dokumenter' = index_mapping_dokumenter
           /\ pc' # "aborted"
    ]_vars

\* C9 witness: a notatListe holds two notater in the order read, and a
\* child with an unknown key has been reported.
C9_Witness ==
    /\ Len(stdout) >= 1
    /\ Len(notatRows) >= 2
    /\ notatRows[1] # notatRows[2]
    /\ \E c \in 1..Len(sager) :
         /\ Len(ChildList(sager[c], "notatListe")) = 2
         /\ sager[c]["notatListe"][1]["notat_id"] = notatRows[1]["notat_id"]
         /\ sager[c]["notatListe"][2]["notat_id"] = notatRows[2]["notat_id"]

\* Number of dokumentcdw rows whose cdw part has been handed to
\* append_to_dokument.
RECURSIVE CountCdwRows(_)
CountCdwRows(rows) ==
    IF rows = <<>> THEN 0
    ELSE (IF HasCdw(Head(rows)) THEN 1 ELSE 0) + CountCdwRows(Tail(rows))

\* C10: when the cdw part of a row is attached, the dokument index has an
\* entry for the row's dokument_id, no cdw is ever reported as unresolved,
\* and between rows the cdw records nested in dokumenter are as many as the
\* rows read with a non-empty cdw_id.
C10_CdwAttachResolves ==
    /\ pc = "cdw" =>
         dokRows[Len(dokRows)]["dokument_id"]
           \in DOMAIN index_mapping_dokumenter
    /\ CountPrints(stdout, "cdw_id") = 0
    /\ pc # "cdw" => CountCdw(dokumenter) = CountCdwRows(dokRows)

====
